---- MODULE Spec2Model ----
(***************************************************************************)
(* A model of the diagnosis API: the Response Coercer (coerceJson), the    *)
(* Generation Routine (runClarityOnServer), the Report Wrapper             *)
(* (generateReport) of src/lib/api.ts, and the HTTP endpoint (OPTIONS,     *)
(* POST, setCorsHeaders) of app/api/diagnosis/route.ts                     *)
(* (src/unnamed/part_000).                                                 *)
(*                                                                         *)
(* JavaScript values are written as their JSON source text ("null",        *)
(* "\"S1\"", "[]", "123"), with "undefined" for a missing property, so     *)
(* that truthiness, nullishness and emptiness can be told apart.  A text   *)
(* is a sequence of tokens: the triple backtick, the word json, a          *)
(* whitespace run, the braces, the comma, a prose word, a complete member  *)
(* "key":value of a JSON object, and, for a member whose string value is   *)
(* spelled out token by token, the key with its colon and the double       *)
(* quote.                                                                  *)
(***************************************************************************)
EXTENDS Integers, Sequences, FiniteSets, TLC

VARIABLES
    key,      \* process.env.GEMINI_API_KEY is set
    clock,    \* the wall clock read by new Date()
    uuids,    \* how many identifiers crypto.randomUUID() has handed out
    pc,       \* "idle", or "fetch" while the routine awaits the upstream reply
    req,      \* the operation in progress
    fetches,  \* upstream requests sent by the operation in progress
    res,      \* what the last finished operation returned
    prev,     \* the entry the routine returned before the last one
    calls,    \* operations started so far
    content,  \* the argument of a direct coerceJson call
    coerced,  \* its result
    cpc       \* "ready" before the coerceJson call, "done" after

vars == <<key, clock, uuids, pc, req, fetches, res, prev, calls, content, coerced, cpc>>

(***************************************************************************)
(* Bounds of the model.                                                    *)
(***************************************************************************)
MaxClock == 1      \* the clock ticks at most this many times
MaxCalls == 2      \* operations started in one behaviour
MaxSegments == 3   \* segments a coerceJson argument is assembled from

(***************************************************************************)
(* JavaScript values and the operators the code applies to them.           *)
(***************************************************************************)
Undefined == "undefined"
JNull == "null"
EmptyString == "\"\""
EmptyList == "[]"

\* typeof v === "string", over the prompt values of the model
IsString(v) == v \in { EmptyString, "\"p1\"", "\"p2\"" }

\* !v
Falsy(v) == v \in { Undefined, JNull, EmptyString, "0", "false" }

\* a || b
Or(a, b) == IF Falsy(a) THEN b ELSE a

\* a ?? b with the operator of a slip, a || b
CoalesceAsOr(a, b) == Or(a, b)

\* a ?? b
Coalesce(a, b) == IF a \in { Undefined, JNull } THEN b ELSE a

\* crypto.randomUUID(): the n-th identifier handed out
randomUUID(n) == <<"\"uuid-1\"", "\"uuid-2\"", "\"uuid-3\"", "\"uuid-4\"">>[n]

\* new Date().toISOString() at clock value t
toISOString(t) == <<"\"T0\"", "\"T1\"", "\"T2\"", "\"T3\"", "\"T4\"">>[t + 1]

(***************************************************************************)
(* Tokens and texts.                                                       *)
(***************************************************************************)
Tok(t) == [t |-> t, k |-> "", v |-> ""]
Member(k, v) == [t |-> "member", k |-> k, v |-> v]

FENCE == Tok("fence")
JSONTAG == Tok("json")
WS == Tok(" ")
LBRACE == Tok("{")
RBRACE == Tok("}")
COMMA == Tok(",")
PROSE == Tok("x")
KEY == Tok("\"summary\":")
QUOTE == Tok("\"")

\* the value of a string spelled out between two QUOTE tokens
SpelledString == "\"spelled\""

Keys == { "id", "prompt", "summary", "feelings", "actionPlan",
          "reflectionPrompts", "createdAt" }

\* an object with no property
EmptyObject == [k \in Keys |-> Undefined]

\* null, as coerceJson returns it
NoObject == [ok |-> FALSE, obj |-> EmptyObject]

(***************************************************************************)
(* JSON.parse of a token sequence: whitespace is skipped, the text must be *)
(* "{" members separated by commas "}", a repeated key keeps its last      *)
(* value.  A member is a member token, or KEY followed by a string: QUOTE, *)
(* any tokens but QUOTE, QUOTE.  Anything else is a SyntaxError            *)
(* (ok = FALSE).                                                           *)
(***************************************************************************)
IsWs(t) == t = WS

RECURSIVE FirstIndex(_, _, _)
FirstIndex(s, t, i) ==
    IF i > Len(s) THEN 0 ELSE IF s[i] = t THEN i ELSE FirstIndex(s, t, i + 1)

RECURSIVE LastIndex(_, _, _)
LastIndex(s, t, i) ==
    IF i < 1 THEN 0 ELSE IF s[i] = t THEN i ELSE LastIndex(s, t, i - 1)

\* the length of the member s starts with, 0 when it starts with none
MemberLen(s) ==
    IF s = <<>> THEN 0
    ELSE IF s[1].t = "member" THEN 1
    ELSE IF s[1] = KEY /\ Len(s) >= 3 /\ s[2] = QUOTE
         THEN FirstIndex(s, QUOTE, 3)
    ELSE 0

RECURSIVE MembersOf(_, _)
MembersOf(s, obj) ==
    LET n == MemberLen(s)
        o == IF n = 1 THEN [obj EXCEPT ![s[1].k] = s[1].v]
             ELSE [obj EXCEPT !["summary"] = SpelledString]
    IN  IF n = 0 THEN NoObject
        ELSE IF Len(s) = n THEN [ok |-> TRUE, obj |-> o]
        ELSE IF s[n + 1] = COMMA THEN MembersOf(SubSeq(s, n + 2, Len(s)), o)
        ELSE NoObject

JSONparse(s) ==
    LET t == SelectSeq(s, LAMBDA x : ~IsWs(x))
    IN  IF Len(t) < 2 \/ t[1] # LBRACE \/ t[Len(t)] # RBRACE THEN NoObject
        ELSE IF Len(t) = 2 THEN [ok |-> TRUE, obj |-> EmptyObject]
        ELSE MembersOf(SubSeq(t, 2, Len(t) - 1), EmptyObject)

(***************************************************************************)
(* The first content.match of coerceJson, for a fence, an optional json tag, *)
(* whitespace, a lazy brace-delimited group, whitespace and a fence: the   *)
(* engine tries each start position from the left; at a start              *)
(* it takes the fence, the optional tag and the whitespace greedily, wants *)
(* "{" and then extends the lazy body one token at a time until a "}" is   *)
(* followed by whitespace and a fence.  The result is the captured group   *)
(* as <<from, to>>, <<0, 0>> when nothing matches.                         *)
(***************************************************************************)
RECURSIVE SkipWs(_, _)
SkipWs(s, i) == IF i <= Len(s) /\ IsWs(s[i]) THEN SkipWs(s, i + 1) ELSE i

ClosesAt(s, e) ==
    /\ e <= Len(s)
    /\ s[e] = RBRACE
    /\ LET j == SkipWs(s, e + 1) IN j <= Len(s) /\ s[j] = FENCE

\* the end of the lazy body: the first "}" from e on that closes the fence
RECURSIVE LazyEnd(_, _)
LazyEnd(s, e) ==
    IF e > Len(s) THEN 0
    ELSE IF ClosesAt(s, e) THEN e
    ELSE LazyEnd(s, e + 1)

FenceAt(s, i) ==
    IF s[i] # FENCE THEN <<0, 0>>
    ELSE LET a == IF i + 1 <= Len(s) /\ s[i + 1] = JSONTAG THEN i + 2 ELSE i + 1
             b == SkipWs(s, a)
         IN  IF b > Len(s) \/ s[b] # LBRACE THEN <<0, 0>>
             ELSE LET e == LazyEnd(s, b + 1)
                  IN  IF e = 0 THEN <<0, 0>> ELSE <<b, e>>

RECURSIVE FirstFenceFrom(_, _)
FirstFenceFrom(s, i) ==
    IF i > Len(s) THEN <<0, 0>>
    ELSE IF FenceAt(s, i) # <<0, 0>> THEN FenceAt(s, i)
    ELSE FirstFenceFrom(s, i + 1)

codeBlockMatch(s) == FirstFenceFrom(s, 1)

(***************************************************************************)
(* The second content.match of coerceJson, a greedy brace-delimited span:  *)
(* from the first "{" to the last "}" after it; <<0, 0>> when there is     *)
(* none.                                                                   *)
(***************************************************************************)
jsonMatch(s) ==
    LET a == FirstIndex(s, LBRACE, 1)
        b == LastIndex(s, RBRACE, Len(s))
    IN  IF a = 0 \/ b < a THEN <<0, 0>> ELSE <<a, b>>

(***************************************************************************)
(* coerceJson(content).  content is [present, text]: present = FALSE is    *)
(* the undefined argument.                                                 *)
(***************************************************************************)
NoContent == [present |-> FALSE, text |-> <<>>]
Text(s) == [present |-> TRUE, text |-> s]

BraceSpanParse(s) ==
    LET m == jsonMatch(s)
    IN  IF m = <<0, 0>> THEN NoObject ELSE JSONparse(SubSeq(s, m[1], m[2]))

\* a coerceJson that returns null when the fenced block does not parse
coerceJsonNoFallThrough(c) ==
    IF ~c.present \/ c.text = <<>> THEN NoObject
    ELSE LET s == c.text
             m == codeBlockMatch(s)
         IN  IF m # <<0, 0>> THEN JSONparse(SubSeq(s, m[1], m[2]))
             ELSE BraceSpanParse(s)

coerceJson(c) ==
    IF ~c.present \/ c.text = <<>> THEN NoObject
    ELSE LET s == c.text
             m == codeBlockMatch(s)
             fenced == IF m = <<0, 0>> THEN NoObject
                       ELSE JSONparse(SubSeq(s, m[1], m[2]))
         IN  IF fenced.ok THEN fenced ELSE BraceSpanParse(s)

(***************************************************************************)
(* The Fallback Record and the entries built from it.                      *)
(***************************************************************************)
fallbackEntry ==
    [ summary |-> "\"fallback summary\"",
      feelings |-> "[3 fallback feelings]",
      actionPlan |-> "[4 fallback steps]",
      reflectionPrompts |-> "[3 fallback prompts]" ]

NoEntry ==
    [ id |-> Undefined, prompt |-> Undefined, createdAt |-> Undefined,
      summary |-> Undefined, feelings |-> Undefined, actionPlan |-> Undefined,
      reflectionPrompts |-> Undefined ]

Returned(e) == [threw |-> FALSE, entry |-> e]
Thrown == [threw |-> TRUE, entry |-> NoEntry]

\* { ...fallbackEntry, prompt, createdAt: now, id: crypto.randomUUID() }
fallbackBuilt(prompt, now, id) ==
    [ id |-> id, prompt |-> prompt, createdAt |-> now,
      summary |-> fallbackEntry.summary,
      feelings |-> fallbackEntry.feelings,
      actionPlan |-> fallbackEntry.actionPlan,
      reflectionPrompts |-> fallbackEntry.reflectionPrompts ]

\* the entry a slip would build by spreading the parsed object over it
mergedSpread(parsed, prompt, now, id) ==
    [ id |-> Coalesce(parsed.obj.id, id),
      prompt |-> Coalesce(parsed.obj.prompt, prompt),
      createdAt |-> Coalesce(parsed.obj.createdAt, now),
      summary |-> Coalesce(parsed.obj.summary, fallbackEntry.summary),
      feelings |-> Coalesce(parsed.obj.feelings, fallbackEntry.feelings),
      actionPlan |-> Coalesce(parsed.obj.actionPlan, fallbackEntry.actionPlan),
      reflectionPrompts |->
          Coalesce(parsed.obj.reflectionPrompts, fallbackEntry.reflectionPrompts) ]

\* the entry returned after a completion text was read; parsed?.f is
\* undefined when parsed is null (NoObject has every property undefined)
merged(parsed, prompt, now, id) ==
    [ id |-> id, prompt |-> prompt, createdAt |-> now,
      summary |-> Coalesce(parsed.obj.summary, fallbackEntry.summary),
      feelings |-> Coalesce(parsed.obj.feelings, fallbackEntry.feelings),
      actionPlan |-> Coalesce(parsed.obj.actionPlan, fallbackEntry.actionPlan),
      reflectionPrompts |->
          Coalesce(parsed.obj.reflectionPrompts, fallbackEntry.reflectionPrompts) ]

(***************************************************************************)
(* The upstream service's reply to the fetch of runClarityOnServer:        *)
(*   transport   fetch rejects                                             *)
(*   status      response.ok is false                                      *)
(*   unreadable  response.json() rejects, or the text is no string         *)
(*   empty       no candidates[0].content.parts[0].text, or ""             *)
(*   text        a completion text                                         *)
(***************************************************************************)
Reply(kind, text) == [kind |-> kind, text |-> text]
NoReply == Reply("none", <<>>)

\* the try block: what it returns, or that it threw
tryBlock(prompt, now, id, up) ==
    IF up.kind \in { "transport", "status", "unreadable" } THEN Thrown
    ELSE IF up.kind = "empty" \/ up.text = <<>> THEN Thrown
    ELSE Returned(merged(coerceJson(Text(up.text)), prompt, now, id))

\* a catch block that logs and throws the error again
catchRethrows(prompt, now, id) == Thrown

\* the catch block
catchBlock(prompt, now, id) == Returned(fallbackBuilt(prompt, now, id))

\* a credential check that never finds the credential missing
keyMissingNever(k) == FALSE

\* !key
keyMissing(k) == ~k

\* runClarityOnServer once the upstream reply is in
afterFetch(prompt, now, id, up) ==
    LET t == tryBlock(prompt, now, id, up)
    IN  IF t.threw THEN catchBlock(prompt, now, id) ELSE t

(***************************************************************************)
(* The Report Wrapper.                                                     *)
(***************************************************************************)
CannedReport == "\"This is a lightweight summary you can share.\""

NoReport == [threw |-> FALSE, entry |-> NoEntry, report |-> Undefined]
ReportThrown == [threw |-> TRUE, entry |-> NoEntry, report |-> Undefined]

\* { ...data, report: data.summary ?? "This is a lightweight summary ..." }
withReport(data) ==
    [threw |-> FALSE, entry |-> data, report |-> Coalesce(data.summary, CannedReport)]

(***************************************************************************)
(* The endpoint.                                                           *)
(***************************************************************************)
NoOrigin == JNull

allowedOrigins ==
    << "\"http://localhost:3000\"", "\"http://localhost:5173\"",
       "\"https://peacepilot-ai.web.app\"", "\"https://peacepilot-ai.web.app/\"" >>

\* allowedOrigins.includes(origin)
Includes(list, x) == \E i \in DOMAIN list : list[i] = x

NoHeaders ==
    [ allowOrigin |-> Undefined, allowCredentials |-> Undefined,
      allowMethods |-> Undefined, allowHeaders |-> Undefined, maxAge |-> Undefined ]

\* new NextResponse(null, { status }) and NextResponse.json(payload, { status })
response(status, error, entry) ==
    [status |-> status, error |-> error, entry |-> entry, headers |-> NoHeaders]

NoResponse == response(0, Undefined, NoEntry)

\* a setCorsHeaders that allows credentials on every response
setCorsHeadersAlwaysCredentials(r, origin) ==
    [r EXCEPT !.headers =
        [ allowOrigin |->
              IF ~Falsy(origin) /\ Includes(allowedOrigins, origin)
              THEN origin ELSE Or(allowedOrigins[1], "\"*\""),
          allowCredentials |-> "\"true\"",
          allowMethods |-> "\"POST, OPTIONS\"",
          allowHeaders |-> "\"Content-Type, Authorization, X-Requested-With\"",
          maxAge |-> "\"86400\"" ]]

setCorsHeaders(r, origin) ==
    [r EXCEPT !.headers =
        IF ~Falsy(origin) /\ Includes(allowedOrigins, origin)
        THEN [ allowOrigin |-> origin,
               allowCredentials |-> "\"true\"",
               allowMethods |-> "\"POST, OPTIONS\"",
               allowHeaders |-> "\"Content-Type, Authorization, X-Requested-With\"",
               maxAge |-> "\"86400\"" ]
        ELSE [ allowOrigin |-> Or(allowedOrigins[1], "\"*\""),
               allowCredentials |-> r.headers.allowCredentials,
               allowMethods |-> "\"POST, OPTIONS\"",
               allowHeaders |-> "\"Content-Type, Authorization, X-Requested-With\"",
               maxAge |-> "\"86400\"" ]]

\* the OPTIONS handler
OPTIONS(origin) == setCorsHeaders(response(200, Undefined, NoEntry), origin)

\* A request body: parses = FALSE when request.json() rejects; object = FALSE
\* for a JSON value with no properties (null, a number); prompt is the value
\* of the prompt property, Undefined when there is none.
Body(parses, object, prompt) == [parses |-> parses, object |-> object, prompt |-> prompt]

\* body?.prompt
promptOf(body) == IF body.object THEN body.prompt ELSE Undefined

\* a check that rejects only a request without the prompt property
promptMissingOnlyUndefined(prompt) == prompt = Undefined

\* !prompt
promptMissing(prompt) == Falsy(prompt)

(***************************************************************************)
(* POST up to the call of runClarityOnServer: "threw" when request.json()  *)
(* rejects or prompt.substring is not a function (the prompt is no         *)
(* string), "rejected" when !prompt, "invoke" otherwise.                   *)
(***************************************************************************)
postStage(body) ==
    IF ~body.parses THEN "threw"
    ELSE IF promptMissing(promptOf(body)) THEN "rejected"
    ELSE IF ~IsString(promptOf(body)) THEN "threw"
    ELSE "invoke"

\* the catch block of POST
postFailed(origin) ==
    setCorsHeaders(response(500, "\"Failed to generate diagnosis\"", NoEntry), origin)

\* the response of POST when the routine is not called
postEarly(origin, body) ==
    IF postStage(body) = "rejected"
    THEN setCorsHeaders(response(400, "\"Prompt is required\"", NoEntry), origin)
    ELSE postFailed(origin)

\* the response of POST after runClarityOnServer has settled
postAfter(origin, ret) ==
    IF ret.threw THEN postFailed(origin)
    ELSE setCorsHeaders(response(200, Undefined, ret.entry), origin)

\* generateReport in the browser, once the endpoint has answered
reportFromResponse(r) == IF r.status # 200 THEN ReportThrown ELSE withReport(r.entry)

\* generateReport on the server, once runClarityOnServer has settled
reportFromEntry(ret) == IF ret.threw THEN ReportThrown ELSE withReport(ret.entry)

(***************************************************************************)
(* The inputs of the model.                                                *)
(***************************************************************************)
Origins ==
    { NoOrigin, "\"http://localhost:3000\"", "\"https://peacepilot-ai.web.app/\"",
      "\"https://evil.example\"" }

\* prompt arguments of the TypeScript callers, which are strings
Prompts == { EmptyString, "\"p1\"", "\"p2\"" }

Bodies ==
    { Body(FALSE, FALSE, Undefined), Body(TRUE, FALSE, Undefined) }
    \cup { Body(TRUE, TRUE, v) :
             v \in { Undefined, JNull, EmptyString, "0", "123", "\"p1\"", "\"p2\"" } }

\* the members "k":v of an object text, none when v is Undefined
FieldText(k, v) == IF v = Undefined THEN <<>> ELSE <<Member(k, v)>>

RECURSIVE Joined(_)
Joined(ms) ==
    IF Len(ms) <= 1 THEN ms ELSE <<ms[1], COMMA>> \o Joined(Tail(ms))

ObjectText(ms) == <<LBRACE>> \o Joined(ms) \o <<RBRACE>>

ObjectTexts ==
    { ObjectText(FieldText("summary", s) \o FieldText("feelings", f)
                 \o FieldText("actionPlan", a) \o FieldText("reflectionPrompts", r)) :
        s \in { Undefined, JNull, EmptyString, "\"S1\"" },
        f \in { Undefined, JNull, EmptyList, "[\"f1\"]" },
        a \in { Undefined, EmptyList, "[\"a1\"]" },
        r \in { Undefined, "[\"r1\"]" } }

OtherTexts ==
    { <<PROSE, PROSE>>,
      <<LBRACE, PROSE, RBRACE>>,
      <<PROSE, FENCE, JSONTAG, WS, LBRACE, Member("summary", "\"S1\""), RBRACE, WS,
        FENCE, PROSE>>,
      <<PROSE, LBRACE, Member("feelings", "[\"f1\"]"), RBRACE, PROSE>>,
      ObjectText(<<Member("id", "\"uuid-1\""), Member("createdAt", "\"T4\""),
                   Member("prompt", "\"p2\""), Member("summary", "\"S1\"")>>) }

CompletionTexts == ObjectTexts \cup OtherTexts

Replies ==
    { Reply(k, <<>>) : k \in { "transport", "status", "unreadable", "empty" } }
    \cup { Reply("text", t) : t \in CompletionTexts }

(***************************************************************************)
(* The state machine.  An operation is one call of OPTIONS, POST,          *)
(* runClarityOnServer (as getClarityInsights makes it on the server) or    *)
(* generateReport (on the server, or in the browser through the            *)
(* endpoint).  Operations run one after the other; an operation that       *)
(* reaches the fetch of runClarityOnServer waits in pc = "fetch" for the   *)
(* upstream reply, and the clock may tick meanwhile.                       *)
(***************************************************************************)
Request(op, origin, body, prompt, now, startedAt) ==
    [ op |-> op, origin |-> origin, body |-> body, prompt |-> prompt, now |-> now,
      startedAt |-> startedAt ]

NoBody == Body(FALSE, FALSE, Undefined)
NoRequest == Request("none", NoOrigin, NoBody, Undefined, Undefined, 0)

Result(r, up, invoked, ret, resp, rep, doneAt) ==
    [ req |-> r, up |-> up, invoked |-> invoked, ret |-> ret, resp |-> resp,
      rep |-> rep, doneAt |-> doneAt ]

NoResult == Result(NoRequest, NoReply, FALSE, Thrown, NoResponse, NoReport, 0)

NoPrev == [some |-> FALSE, id |-> Undefined, createdAt |-> Undefined, prompt |-> Undefined]

\* the entry of the last finished call of the routine, kept for the next one
Remembered ==
    IF res.invoked /\ ~res.ret.threw
    THEN [ some |-> TRUE, id |-> res.ret.entry.id,
           createdAt |-> res.ret.entry.createdAt, prompt |-> res.ret.entry.prompt ]
    ELSE prev

\* what the operation r returns once the routine has settled with ret
Settled(r, up, ret) ==
    Result(r, up, TRUE, ret,
           IF r.op \in { "POST", "reportWeb" } THEN postAfter(r.origin, ret) ELSE NoResponse,
           IF r.op = "report" THEN reportFromEntry(ret)
           ELSE IF r.op = "reportWeb" THEN reportFromResponse(postAfter(r.origin, ret))
           ELSE NoReport,
           clock)

Init ==
    /\ key \in BOOLEAN
    /\ clock = 0
    /\ uuids = 0
    /\ pc = "idle"
    /\ req = NoRequest
    /\ fetches = 0
    /\ res = NoResult
    /\ prev = NoPrev
    /\ calls = 0
    /\ content = NoContent
    /\ coerced = NoObject
    /\ cpc = "done"

\* the head of runClarityOnServer: read the key and the clock, return the
\* fallback at once without a key, else send the upstream request
Invoke(r) ==
    LET q == [r EXCEPT !.now = toISOString(clock), !.startedAt = clock]
    IN  /\ req' = q
        /\ prev' = Remembered
        /\ calls' = calls + 1
        /\ IF keyMissing(key)
           THEN /\ res' = Settled(q, NoReply,
                                  Returned(fallbackBuilt(q.prompt, q.now, randomUUID(uuids + 1))))
                /\ uuids' = uuids + 1
                /\ pc' = "idle"
                /\ fetches' = 0
           ELSE /\ res' = NoResult
                /\ pc' = "fetch"
                /\ fetches' = 1
                /\ UNCHANGED uuids
        /\ UNCHANGED <<key, clock, content, coerced, cpc>>

\* an operation that ends without calling the routine
Answer(r, resp, rep) ==
    /\ req' = r
    /\ prev' = Remembered
    /\ calls' = calls + 1
    /\ res' = Result(r, NoReply, FALSE, Thrown, resp, rep, clock)
    /\ fetches' = 0
    /\ UNCHANGED <<key, clock, uuids, pc, content, coerced, cpc>>

CanStart == pc = "idle" /\ calls < MaxCalls

CallOPTIONS ==
    /\ CanStart
    /\ \E origin \in Origins :
         Answer(Request("OPTIONS", origin, NoBody, Undefined, Undefined, clock),
                OPTIONS(origin), NoReport)

CallPOST ==
    /\ CanStart
    /\ \E origin \in Origins, body \in Bodies :
         LET r == Request("POST", origin, body, promptOf(body), Undefined, clock)
         IN  IF postStage(body) = "invoke"
             THEN Invoke(r)
             ELSE Answer(r, postEarly(origin, body), NoReport)

\* getClarityInsights on the server: runClarityOnServer(prompt)
CallRun ==
    /\ CanStart
    /\ \E prompt \in Prompts :
         Invoke(Request("run", NoOrigin, NoBody, prompt, Undefined, clock))

\* generateReport on the server
CallReport ==
    /\ CanStart
    /\ \E prompt \in Prompts :
         Invoke(Request("report", NoOrigin, NoBody, prompt, Undefined, clock))

\* generateReport in the browser: POST { prompt } to the endpoint; the
\* request may not reach the endpoint at all (reached = FALSE)
CallReportWeb ==
    /\ CanStart
    /\ \E prompt \in Prompts, origin \in Origins, reached \in BOOLEAN :
         LET body == Body(TRUE, TRUE, prompt)
             r == Request("reportWeb", origin, body, prompt, Undefined, clock)
         IN  IF ~reached THEN Answer(r, NoResponse, ReportThrown)
             ELSE IF postStage(body) = "invoke" THEN Invoke(r)
             ELSE Answer(r, postEarly(origin, body),
                         reportFromResponse(postEarly(origin, body)))

\* the upstream reply arrives and the operation finishes
UpstreamReply ==
    /\ pc = "fetch"
    /\ \E up \in Replies :
         res' = Settled(req, up, afterFetch(req.prompt, req.now, randomUUID(uuids + 1), up))
    /\ uuids' = uuids + 1
    /\ pc' = "idle"
    /\ UNCHANGED <<key, clock, req, fetches, prev, calls, content, coerced, cpc>>

Tick ==
    /\ clock < MaxClock
    /\ clock' = clock + 1
    /\ UNCHANGED <<key, uuids, pc, req, fetches, res, prev, calls, content, coerced, cpc>>

Next ==
    \/ CallOPTIONS
    \/ CallPOST
    \/ CallRun
    \/ CallReport
    \/ CallReportWeb
    \/ UpstreamReply
    \/ Tick

Spec == Init /\ [][Next]_vars

(***************************************************************************)
(* coerceJson on its own: the argument is undefined, or a text assembled   *)
(* from at most MaxSegments segments, each one token or a fenced block.    *)
(***************************************************************************)
CoerceTokens ==
    { FENCE, JSONTAG, WS, LBRACE, RBRACE, PROSE, KEY, QUOTE,
      Member("summary", "\"S1\"") }

FencedBlocks ==
    { <<FENCE>> \o tag \o body \o <<FENCE>> :
        tag \in { <<>>, <<JSONTAG, WS>> },
        body \in { <<LBRACE, RBRACE>>,
                   <<LBRACE, Member("summary", "\"S1\""), RBRACE>>,
                   <<LBRACE, PROSE, RBRACE>>,
                   <<LBRACE, KEY, QUOTE, RBRACE>> } }

Segments == { <<t>> : t \in CoerceTokens } \cup FencedBlocks

RECURSIVE Assembled(_)
Assembled(n) ==
    IF n = 0 THEN { <<>> }
    ELSE LET A == Assembled(n - 1)
         IN  A \cup { a \o g : a \in A, g \in Segments }

CoerceInputs == { NoContent } \cup { Text(t) : t \in Assembled(MaxSegments) }

InitCoerce ==
    /\ key = FALSE
    /\ clock = 0
    /\ uuids = 0
    /\ pc = "idle"
    /\ req = NoRequest
    /\ fetches = 0
    /\ res = NoResult
    /\ prev = NoPrev
    /\ calls = 0
    /\ content \in CoerceInputs
    /\ coerced = NoObject
    /\ cpc = "ready"

CallCoerce ==
    /\ cpc = "ready"
    /\ coerced' = coerceJson(content)
    /\ cpc' = "done"
    /\ UNCHANGED <<key, clock, uuids, pc, req, fetches, res, prev, calls, content>>

NextCoerce == CallCoerce

SpecCoerce == InitCoerce /\ [][NextCoerce]_vars

(***************************************************************************)
(* Definitions the properties are stated with.                             *)
(***************************************************************************)
ContentFields == { "summary", "feelings", "actionPlan", "reflectionPrompts" }

\* the content field f of an entry, of the Fallback Record, of a parsed object
FieldOf(e, f) ==
    IF f = "summary" THEN e.summary
    ELSE IF f = "feelings" THEN e.feelings
    ELSE IF f = "actionPlan" THEN e.actionPlan
    ELSE e.reflectionPrompts

\* the routine was called by the last operation and that operation is over
RoutineDone == res.invoked

\* the clock value a timestamp was made from
TimeOf(iso) == CHOOSE t \in 0..4 : toISOString(t) = iso

\* the last operation went through the endpoint and was answered
Answered == res.req.op \in { "OPTIONS", "POST", "reportWeb" } /\ res.resp.status # 0

\* an object text with the summary "S1" and nothing else
OnlySummaryText == ObjectText(<<Member("summary", "\"S1\"")>>)

\* C1: runClarityOnServer never raises: whatever the prompt and the upstream
\* outcome (no credential, transport failure, non-success status, unreadable
\* or empty completion, unparseable or parseable completion text), the call
\* returns an entry whose prompt is the prompt it was given.
C1_NeverRaises ==
    RoutineDone =>
        /\ ~res.ret.threw
        /\ res.ret.entry.prompt = res.req.prompt

C1_Witness ==
    /\ RoutineDone
    /\ res.req.op = "run"
    /\ res.up.kind = "status"
    /\ res.ret.entry.prompt = "\"p1\""

\* C2: for every non-empty prompt and every upstream outcome, every field of
\* the returned entry is present and non-empty, also when the parsed
\* completion supplies an empty string or an empty list for a field.
C2_AllFieldsNonEmpty ==
    (RoutineDone /\ res.req.prompt # EmptyString) =>
        /\ ~res.ret.threw
        /\ \A v \in { res.ret.entry.id, res.ret.entry.prompt, res.ret.entry.createdAt,
                      res.ret.entry.summary, res.ret.entry.feelings,
                      res.ret.entry.actionPlan, res.ret.entry.reflectionPrompts } :
              v \notin { Undefined, JNull, EmptyString, EmptyList }

\* C3: without a credential, and when the upstream call fails in transport,
\* answers a non-success status or yields an empty completion, the returned
\* summary, feelings, actionPlan and reflectionPrompts are exactly the
\* Fallback Record's, whatever the prompt.
C3_FailureIsFallback ==
    (RoutineDone /\ (~key \/ res.up.kind \in { "transport", "status", "empty" })) =>
        /\ ~res.ret.threw
        /\ \A f \in ContentFields : FieldOf(res.ret.entry, f) = FieldOf(fallbackEntry, f)

C3_Witness ==
    /\ RoutineDone
    /\ ~key
    /\ res.req.prompt = "\"p2\""
    /\ res.ret.entry.summary = fallbackEntry.summary
    /\ res.ret.entry.reflectionPrompts = fallbackEntry.reflectionPrompts

\* C4 as stated: when a completion text is present, each content field is the
\* parsed value if the parsed object has that field, else the Fallback
\* Record's value.
C4_FieldIfPresent ==
    (RoutineDone /\ key /\ res.up.kind = "text") =>
        LET parsed == coerceJson(Text(res.up.text)).obj
        IN  \A f \in ContentFields :
              FieldOf(res.ret.entry, f) =
                  IF FieldOf(parsed, f) # Undefined THEN FieldOf(parsed, f)
                  ELSE FieldOf(fallbackEntry, f)

\* C4 amended: when a completion text is present, each content field is,
\* independently of the others, the parsed value if the parsed object has
\* that field with a value other than null, else the Fallback Record's
\* value; an object with only a summary yields that summary and the three
\* fallback lists; a text no object can be parsed from yields the four
\* fallback values.
C4_FieldIfNotNull ==
    (RoutineDone /\ key /\ res.up.kind = "text") =>
        LET parsed == coerceJson(Text(res.up.text))
        IN  /\ \A f \in ContentFields :
                 FieldOf(res.ret.entry, f) =
                     IF FieldOf(parsed.obj, f) \notin { Undefined, JNull }
                     THEN FieldOf(parsed.obj, f)
                     ELSE FieldOf(fallbackEntry, f)
            /\ res.up.text = OnlySummaryText =>
                 /\ res.ret.entry.summary = "\"S1\""
                 /\ \A f \in ContentFields \ { "summary" } :
                      FieldOf(res.ret.entry, f) = FieldOf(fallbackEntry, f)
            /\ ~parsed.ok =>
                 \A f \in ContentFields :
                    FieldOf(res.ret.entry, f) = FieldOf(fallbackEntry, f)

C4_Witness ==
    /\ RoutineDone
    /\ key
    /\ res.up.kind = "text"
    /\ res.up.text = ObjectText(<<Member("summary", EmptyString),
                                  Member("feelings", JNull),
                                  Member("actionPlan", "[\"a1\"]")>>)
    /\ res.ret.entry.summary = EmptyString
    /\ res.ret.entry.feelings = fallbackEntry.feelings
    /\ res.ret.entry.actionPlan = "[\"a1\"]"
    /\ res.ret.entry.reflectionPrompts = fallbackEntry.reflectionPrompts

\* C5: a POST whose JSON body has no prompt or an empty one is answered 400
\* with the error "Prompt is required"; the routine is not called and no
\* upstream request is sent.
C5_MissingPromptIs400 ==
    (/\ Answered
     /\ res.req.op \in { "POST", "reportWeb" }
     /\ res.req.body.parses
     /\ res.req.prompt \in { Undefined, EmptyString }) =>
        /\ res.resp.status = 400
        /\ res.resp.error = "\"Prompt is required\""
        /\ ~res.invoked
        /\ fetches = 0

C5_Witness ==
    /\ Answered
    /\ res.req.op = "POST"
    /\ res.req.body = Body(TRUE, TRUE, EmptyString)
    /\ key
    /\ res.resp.status = 400
    /\ fetches = 0

\* C6: every POST whose body parses as JSON and carries a present, non-empty
\* prompt value is answered 200 with the entry the routine returned; the 500
\* response is for request-parsing failures only.
C6_PromptGets200 ==
    (/\ Answered
     /\ res.req.op = "POST"
     /\ res.req.body.parses
     /\ res.req.prompt \notin { Undefined, JNull, EmptyString, "0" }) =>
        /\ res.resp.status = 200
        /\ res.invoked
        /\ res.resp.entry = res.ret.entry

\* C7: every response of the endpoint carries the cross-origin headers: an
\* allow-listed Origin is echoed with credentials "true"; a missing or other
\* Origin gets the first allow-list origin and no credentials header; the
\* methods, headers and max-age are fixed; OPTIONS answers 200.
C7_CorsOnEveryResponse ==
    Answered =>
        LET h == res.resp.headers
            listed == res.req.origin \in
                         { "\"http://localhost:3000\"", "\"http://localhost:5173\"",
                           "\"https://peacepilot-ai.web.app\"",
                           "\"https://peacepilot-ai.web.app/\"" }
        IN  /\ res.resp.status \in { 200, 400, 500 }
            /\ listed => h.allowOrigin = res.req.origin /\ h.allowCredentials = "\"true\""
            /\ ~listed => /\ h.allowOrigin = "\"http://localhost:3000\""
                          /\ h.allowCredentials = Undefined
            /\ h.allowMethods = "\"POST, OPTIONS\""
            /\ h.allowHeaders = "\"Content-Type, Authorization, X-Requested-With\""
            /\ h.maxAge = "\"86400\""
            /\ res.req.op = "OPTIONS" => res.resp.status = 200

C7_Witness ==
    /\ Answered
    /\ res.req.op = "POST"
    /\ res.resp.status = 500
    /\ res.req.origin = "\"https://evil.example\""
    /\ res.resp.headers.allowOrigin = "\"http://localhost:3000\""
    /\ res.resp.headers.allowCredentials = Undefined

\* C8: generateReport returns the fields of the underlying entry unchanged
\* plus report; report is the summary when the summary is truthy and the
\* canned sentence when the summary is falsy or absent, an empty-string
\* summary included, on the direct path and through the endpoint.
C8_ReportOrCanned ==
    (res.req.op \in { "report", "reportWeb" } /\ RoutineDone /\ ~res.rep.threw) =>
        /\ res.rep.entry = res.ret.entry
        /\ res.rep.report =
              IF res.ret.entry.summary \in { Undefined, JNull, EmptyString }
              THEN CannedReport ELSE res.ret.entry.summary

\* C10: id and createdAt are made by the call itself, never taken from the
\* parsed completion; createdAt is the clock read at the start of the call,
\* before the upstream request; two successive calls with the same prompt
\* return different identifiers and non-decreasing timestamps.
C10_FreshIdAndTime ==
    RoutineDone =>
        /\ res.ret.entry.id = randomUUID(uuids)
        /\ res.ret.entry.createdAt = toISOString(res.req.startedAt)
        /\ (prev.some /\ prev.prompt = res.ret.entry.prompt) =>
              /\ prev.id # res.ret.entry.id
              /\ TimeOf(prev.createdAt) <= TimeOf(res.ret.entry.createdAt)

C10_Witness ==
    /\ RoutineDone
    /\ res.up.kind = "text"
    /\ coerceJson(Text(res.up.text)).obj.id = "\"uuid-1\""
    /\ coerceJson(Text(res.up.text)).obj.createdAt = "\"T4\""
    /\ prev.some
    /\ prev.prompt = res.ret.entry.prompt
    /\ res.req.startedAt < res.doneAt
    /\ res.ret.entry.id = "\"uuid-2\""
    /\ res.ret.entry.createdAt = "\"T0\""

(***************************************************************************)
(* The fence pattern and the brace span, stated over positions.            *)
(***************************************************************************)
AllWs(s, a, b) == \A m \in a..b : s[m] = WS

\* a fence at i, an optional json tag, whitespace and "{" at b
OpensAt(s, i, b) ==
    /\ s[i] = FENCE
    /\ s[b] = LBRACE
    /\ \/ AllWs(s, i + 1, b - 1)
       \/ i + 1 < b /\ s[i + 1] = JSONTAG /\ AllWs(s, i + 2, b - 1)

\* "}" at e, whitespace and a fence
ClosedAt(s, e) ==
    /\ s[e] = RBRACE
    /\ \E j \in (e + 1)..Len(s) : s[j] = FENCE /\ AllWs(s, e + 1, j - 1)

\* the positions a fenced brace block starts at
FenceStarts(s) ==
    { i \in 1..Len(s) :
        \E b \in (i + 1)..Len(s), e \in (i + 2)..Len(s) :
            OpensAt(s, i, b) /\ b < e /\ ClosedAt(s, e) }

\* the brace block of the leftmost fenced brace block, as short as can be
FirstFencedBlock(s) ==
    LET i == CHOOSE x \in FenceStarts(s) : \A y \in FenceStarts(s) : x <= y
        b == CHOOSE x \in (i + 1)..Len(s) : OpensAt(s, i, x)
        ends == { x \in (b + 1)..Len(s) : ClosedAt(s, x) }
        e == CHOOSE x \in ends : \A y \in ends : x <= y
    IN  SubSeq(s, b, e)

\* the text from the first "{" to the last "}", <<>> when there is none
BraceSpan(s) ==
    LET opens == { x \in 1..Len(s) : s[x] = LBRACE }
        closes == { x \in 1..Len(s) : s[x] = RBRACE }
    IN  IF \E a \in opens, z \in closes : a < z
        THEN SubSeq(s, CHOOSE a \in opens : \A y \in opens : a <= y,
                       CHOOSE z \in closes : \A y \in closes : y <= z)
        ELSE <<>>

\* The code blocks of a text as markdown pairs the fences: the first with
\* the second, the third with the fourth.  A block's body is what stands
\* between its fences, after the json tag if one follows the opening fence.
FencePositions(s) == { i \in 1..Len(s) : s[i] = FENCE }
FenceRank(s, i) == Cardinality({ j \in FencePositions(s) : j <= i })

CodeBlockBodies(s) ==
    { IF i + 1 < j /\ s[i + 1] = JSONTAG THEN SubSeq(s, i + 2, j - 1)
      ELSE SubSeq(s, i + 1, j - 1) :
        <<i, j>> \in { p \in FencePositions(s) \X FencePositions(s) :
                         /\ FenceRank(s, p[1]) % 2 = 1
                         /\ FenceRank(s, p[2]) = FenceRank(s, p[1]) + 1 } }

ValidFencedObjects(s) ==
    { JSONparse(body) : body \in { x \in CodeBlockBodies(s) : JSONparse(x).ok } }

\* C9 as stated: when the text contains a JSON code fence whose body is a
\* valid JSON object, the result is that fenced object, whatever surrounds
\* the fence.
C9_AnyValidFenceWins ==
    (cpc = "done" /\ content.present /\ ValidFencedObjects(content.text) # {}) =>
        coerced \in ValidFencedObjects(content.text)

\* C9 amended: coerceJson tries the leftmost fenced brace block first (a
\* fence, an optional json tag, whitespace, the shortest brace-delimited
\* text that is followed by whitespace and a fence) and the whole-input brace
\* span second: when that first block parses as a JSON object the result is
\* that object, whatever surrounds it; when there is no such block or it
\* fails to parse, later fenced blocks are not tried and the result is the
\* parse of the text from the first "{" to the last "}", or absence if there
\* is none or it does not parse; absent or empty input yields absence.
C9_FirstFenceThenBraceSpan ==
    cpc = "done" =>
        LET s == content.text
        IN  IF ~content.present \/ s = <<>> THEN coerced = NoObject
            ELSE IF FenceStarts(s) # {} /\ JSONparse(FirstFencedBlock(s)).ok
                 THEN coerced = JSONparse(FirstFencedBlock(s))
            ELSE IF BraceSpan(s) # <<>> THEN coerced = JSONparse(BraceSpan(s))
            ELSE coerced = NoObject

C9_Witness ==
    /\ cpc = "done"
    /\ content.text = <<LBRACE, FENCE, JSONTAG, WS, LBRACE,
                        Member("summary", "\"S1\""), RBRACE, FENCE, PROSE>>
    /\ coerced.ok
    /\ coerced.obj.summary = "\"S1\""

====
